---- MODULE Spec2Model ----
(***************************************************************************)
(* Model of the authentication / authorization layer of the marketplace    *)
(* back end: src/app/auth.py, src/app/routes/auth.py,                      *)
(* src/app/routes/product.py and the error handlers of src/app/__init__.py.*)
(*                                                                         *)
(* One request is modelled per worker as a small state machine             *)
(*   receive+extract -> verify -> resolve -> handler -> done               *)
(* following the body of requires_auth.  The route is an input of the      *)
(* handler step: the guard chain does not depend on it.                    *)
(***************************************************************************)
EXTENDS Integers, Sequences, FiniteSets, TLC

VARIABLES users, products, session, jwks, now, procs, req

vars == <<users, products, session, jwks, now, procs, req>>

----------------------------------------------------------------------------
(* Bounds *)

MaxVal == 2
MaxTime == 1

----------------------------------------------------------------------------
(* Configuration (src/config.py) and fixed vocabularies *)

API_AUDIENCE == "your-api-audience"
AUTH0_DOMAIN == "your-auth0-domain"
Issuer == "https://your-auth0-domain/"

Workers == {1, 2}
Subjects == {"u1", "u2"}
Kids == {"k1", "k2"}
Audiences == {API_AUDIENCE, "other-audience"}
Issuers == {Issuer, "https://evil/"}
NameOf == [s \in Subjects |-> IF s = "u1" THEN "Ann" ELSE ""]
Emails == {"", "a@x.io"}
Descriptions == {"", "d1"}
Names == {"", "n1"}
ProductIds == {1}

(* Sentinels: Python None / absent values *)
None == [none |-> TRUE]
NoUser == [absent |-> "user"]
NoProduct == [absent |-> "product"]
NoSession == [absent |-> "session"]
NoExc == [absent |-> "exception"]
NoResp == [absent |-> "response"]
NoToken == [absent |-> "token"]
NoPayload == [absent |-> "payload"]
NoName == "~None"

----------------------------------------------------------------------------
(* Tokens.  A token is what the bytes of a JWT determine: the key id of     *)
(* its header, the key that produced its signature, and its claims.         *)

(* the claim https://localhost:5000/app_metadata: absent, the empty object *)
(* {}, {"is_admin": false} or {"is_admin": true}                           *)
MetaValues == {"absent", "empty", "is_admin_false", "is_admin_true"}

BaseClaims == [sub |-> "u1", meta |-> "is_admin_true", email |-> "a@x.io"]

Flawed(t) == t.sig # t.kid \/ t.aud # API_AUDIENCE \/ t.iss # Issuer

AllJwt ==
  [shape : {"jwt"}, kid : Kids, sig : Kids, aud : Audiences, iss : Issuers,
   exp : 0..MaxTime, sub : Subjects, meta : MetaValues, email : Emails]

IsBase(t) ==
  t.sub = BaseClaims.sub /\ t.meta = BaseClaims.meta
  /\ t.email = BaseClaims.email

(* every defect and every lifetime is combined with the base claims; the   *)
(* other claim sets come in well-formed, long-lived tokens.  The tokens of *)
(* u1 always carry its e-mail address, those of u2 may lack the claim; the *)
(* empty metadata object comes in one claim set of u2.                     *)
Tokens ==
  {t \in AllJwt :
      /\ t.sub = "u1" => t.email = "a@x.io"
      /\ t.meta = "empty" => t.sub = "u2" /\ t.email = ""
      /\ ~IsBase(t) => ~Flawed(t) /\ t.exp = MaxTime}
  \cup
  {[shape |-> s, kid |-> "k1", sig |-> "k1", aud |-> API_AUDIENCE,
    iss |-> Issuer, exp |-> MaxTime, sub |-> "u1", meta |-> "is_admin_true",
    email |-> "a@x.io"] : s \in {"garbage", "nokid"}}

----------------------------------------------------------------------------
(* Exceptions and responses *)

(* class AuthError: error = {code, description}, status_code *)
AuthError(code, description, status_code) ==
  [type |-> "AuthError", code |-> code, status |-> status_code,
   text |-> description]

(* any other Python exception; text is str(e) *)
Raised(type, text) ==
  [type |-> type, code |-> "", status |-> 0, text |-> text]

(* flask.abort(status): a werkzeug HTTPException, a subclass of Exception *)
abort(status, text) ==
  [type |-> "HTTPException", code |-> "", status |-> status, text |-> text]

Response(status, code, text) ==
  [status |-> status, code |-> code, text |-> text]

Ok(v) == [ok |-> TRUE, val |-> v, exc |-> NoExc]
Fail(e) == [ok |-> FALSE, val |-> None, exc |-> e]

----------------------------------------------------------------------------
(* Authorization header values.  A header value is a string, modelled as a *)
(* sequence of atoms: whitespace, scheme words and tokens.                 *)

SP == [word |-> " "]
W(s) == [word |-> s]
IsWord(a) == "word" \in DOMAIN a
IsSpace(a) == IsWord(a) /\ a.word = " "

Header(v) == [present |-> TRUE, value |-> v]
AbsentHeader == [present |-> FALSE, value |-> <<>>]

(* str.split(): the maximal runs of non-whitespace *)
split(v) == SelectSeq(v, LAMBDA a : ~IsSpace(a))

(* str.lower() on the words the model uses *)
lower(s) == IF s \in {"Bearer", "BEARER", "bearer"} THEN "bearer"
            ELSE IF s \in {"Basic", "basic"} THEN "basic" ELSE s

LowerIsBearer(a) == IsWord(a) /\ lower(a.word) = "bearer"

(* truthiness of request.headers.get("Authorization", None) *)
Truthy(h) == h.present /\ Len(h.value) > 0

(* extraction that never looks at the session *)
get_token_auth_header_no_session(auth, sess) ==
  IF ~Truthy(auth)
    THEN Fail(AuthError("authorization_header_missing",
                        "Authorization header is expected", 401))
    ELSE LET parts == split(auth.value) IN
         IF Len(parts) = 2 /\ LowerIsBearer(parts[1]) THEN Ok(parts[2])
         ELSE Fail(AuthError("invalid_header", "Malformed header", 401))

(* extraction that takes a header token only from a logged-in browser *)
get_token_auth_header_needs_session(auth, sess) ==
  IF sess = NoSession
    THEN Fail(AuthError("authorization_header_missing",
                        "Authorization header is expected", 401))
  ELSE IF ~Truthy(auth) THEN Ok(sess.access_token)
  ELSE LET parts == split(auth.value) IN
       IF Len(parts) = 2 /\ LowerIsBearer(parts[1]) THEN Ok(parts[2])
       ELSE Fail(AuthError("invalid_header", "Malformed header", 401))

get_token_auth_header(auth, sess) ==
  IF ~Truthy(auth)
    THEN IF sess # NoSession /\ "access_token" \in DOMAIN sess
           THEN Ok(sess.access_token)
           ELSE Fail(AuthError("authorization_header_missing",
                               "Authorization header is expected", 401))
    ELSE LET parts == split(auth.value) IN
         IF Len(parts) = 0
           THEN Fail(Raised("IndexError", "list index out of range"))
         ELSE IF ~LowerIsBearer(parts[1])
           THEN Fail(AuthError("invalid_header",
                     "Authorization header must start with Bearer", 401))
         ELSE IF Len(parts) = 1
           THEN Fail(AuthError("invalid_header", "Token not found", 401))
         ELSE IF Len(parts) > 2
           THEN Fail(AuthError("invalid_header",
                     "Authorization header must be Bearer token", 401))
         ELSE Ok(parts[2])

----------------------------------------------------------------------------
(* Token verification *)

Claims(t) ==
  [sub |-> t.sub, meta |-> t.meta, email |-> t.email, name |-> NameOf[t.sub]]

(* jwt.decode called without an audience to compare with *)
jwt_decode_no_audience(t, key, audience, issuer, clock) ==
  IF t.sig # key THEN Fail(Raised("JWTError", "Signature verification failed."))
  ELSE IF t.exp < clock
    THEN Fail(Raised("ExpiredSignatureError", "Signature has expired."))
  ELSE IF t.iss # issuer
    THEN Fail(Raised("JWTClaimsError", "Invalid issuer"))
  ELSE Ok(Claims(t))

(* jwt.decode validating the audience before the expiry *)
jwt_decode_audience_first(t, key, audience, issuer, clock) ==
  IF t.sig # key THEN Fail(Raised("JWTError", "Signature verification failed."))
  ELSE IF t.aud # audience
    THEN Fail(Raised("JWTClaimsError", "Invalid audience"))
  ELSE IF t.exp < clock
    THEN Fail(Raised("ExpiredSignatureError", "Signature has expired."))
  ELSE IF t.iss # issuer
    THEN Fail(Raised("JWTClaimsError", "Invalid issuer"))
  ELSE Ok(Claims(t))

(* jose jwt.decode(token, rsa_key, algorithms, audience, issuer): the       *)
(* signature is checked first, then exp, aud and iss in that order.         *)
jwt_decode(t, key, audience, issuer, clock) ==
  IF t.sig # key THEN Fail(Raised("JWTError", "Signature verification failed."))
  ELSE IF t.exp < clock
    THEN Fail(Raised("ExpiredSignatureError", "Signature has expired."))
  ELSE IF t.aud # audience
    THEN Fail(Raised("JWTClaimsError", "Invalid audience"))
  ELSE IF t.iss # issuer
    THEN Fail(Raised("JWTClaimsError", "Invalid issuer"))
  ELSE Ok(Claims(t))

(* the handlers around jwt.decode, lines 167-185.  The last handler reads  *)
(* the name e, which is unbound there: it raises UnboundLocalError instead *)
(* of the AuthError written after it.                                      *)
decode_handlers(r) ==
  IF r.ok THEN r
  ELSE IF r.exc.type = "ExpiredSignatureError"
    THEN Fail(AuthError("token_expired", "Token is expired", 401))
  ELSE IF r.exc.type = "JWTClaimsError"
    THEN Fail(AuthError("invalid_claims",
              "Incorrect claims, please check the audience and issuer", 401))
  ELSE Fail(Raised("UnboundLocalError",
                   "local variable 'e' referenced before assignment"))

(* fetched: the outcome of urlopen + json.loads on the JWKS document *)
verify_jwt(t, keys, fetched, clock) ==
  IF ~fetched THEN Fail(Raised("URLError", "urlopen error"))
  ELSE IF t.shape = "garbage"
    THEN Fail(Raised("JWTError", "Error decoding token headers."))
  ELSE IF t.shape = "nokid" /\ keys # {}
    THEN Fail(Raised("KeyError", "'kid'"))
  ELSE IF t.shape = "jwt" /\ t.kid \in keys
    THEN decode_handlers(jwt_decode(t, t.kid, API_AUDIENCE, Issuer, clock))
  ELSE Fail(AuthError("invalid_header", "Unable to find appropriate key", 401))

----------------------------------------------------------------------------
(* User resolution *)

(* an indicator read from the is_admin field of the metadata *)
bool_reads_is_admin(meta) == meta = "is_admin_true"

(* bool(payload.get('https://localhost:5000/app_metadata', False)): an     *)
(* object is truthy when it is not empty                                   *)
bool(meta) == meta \notin {"absent", "empty"}

User(user_id, email, name, is_admin) ==
  [user_id |-> user_id, email |-> email, name |-> name, is_admin |-> is_admin]

(* UNIQUE(email) and PRIMARY KEY(user_id) of the users table *)
InsertAllowed(tbl, u) ==
  /\ tbl[u.user_id] = NoUser
  /\ \A s \in Subjects : tbl[s] # NoUser => tbl[s].email # u.email

(* the three outcomes of get_or_create_user; wrote: a commit went through *)
Resolved(user, tbl, wrote) ==
  [ok |-> TRUE, val |-> user, exc |-> NoExc, tbl |-> tbl, wrote |-> wrote]

(* except Exception: db.session.rollback(); raise *)
RolledBack(e, tbl) ==
  [ok |-> FALSE, val |-> None, exc |-> e, tbl |-> tbl, wrote |-> FALSE]

StoreFault == Raised("OperationalError", "database is locked")

EmailTaken == Raised("IntegrityError", "UNIQUE constraint failed: users.email")

(* db.session.add(user); db.session.commit() at lines 112-113.  store_ok   *)
(* is false when the store fails the commit for a reason of its own.       *)
(* an insert into a table without the UNIQUE constraint on email *)
InsertUser_unchecked(new, tbl, store_ok) ==
  IF ~store_ok THEN RolledBack(StoreFault, tbl)
  ELSE Resolved(new, [tbl EXCEPT ![new.user_id] = new], TRUE)

InsertUser(new, tbl, store_ok) ==
  IF ~store_ok THEN RolledBack(StoreFault, tbl)
  ELSE IF ~InsertAllowed(tbl, new) THEN RolledBack(EmailTaken, tbl)
  ELSE Resolved(new, [tbl EXCEPT ![new.user_id] = new], TRUE)

(* the object built at lines 108-110 *)
NewUser(payload) ==
  User(payload.sub, payload.email,
       IF payload.name = "" THEN NoName ELSE payload.name,
       bool(payload.meta))

(* get_or_create_user with the else branch of line 119 missing: an        *)
(* existing user is returned as stored                                    *)
get_or_create_user_no_reconcile(payload, tbl, store_ok) ==
  LET user == tbl[payload.sub] IN
  IF user = NoUser THEN InsertUser(NewUser(payload), tbl, store_ok)
  ELSE Resolved(user, tbl, FALSE)

(* get_or_create_user committing on every call, changed or not *)
get_or_create_user_always_commit(payload, tbl, store_ok) ==
  LET user_id == payload.sub
      user == tbl[user_id]
      is_admin == bool(payload.meta)
  IN IF user = NoUser THEN InsertUser(NewUser(payload), tbl, store_ok)
     ELSE IF ~store_ok THEN RolledBack(StoreFault, tbl)
     ELSE Resolved([user EXCEPT !.is_admin = is_admin],
                   [tbl EXCEPT ![user_id].is_admin = is_admin], TRUE)

(* get_or_create_user overwriting the stored email with the claim's *)
get_or_create_user_sync_email(payload, tbl, store_ok) ==
  LET user_id == payload.sub
      user == tbl[user_id]
      is_admin == bool(payload.meta)
  IN IF user = NoUser THEN InsertUser(NewUser(payload), tbl, store_ok)
     ELSE IF user.is_admin # is_admin
       THEN IF ~store_ok THEN RolledBack(StoreFault, tbl)
            ELSE Resolved([user EXCEPT !.is_admin = is_admin,
                                       !.email = payload.email],
                          [tbl EXCEPT ![user_id].is_admin = is_admin,
                                      ![user_id].email = payload.email],
                          TRUE)
     ELSE Resolved(user, tbl, FALSE)

(* get_or_create_user that reconciles the flag upwards only: a stored     *)
(* admin stays an admin                                                    *)
get_or_create_user_never_demotes(payload, tbl, store_ok) ==
  LET user_id == payload.sub
      user == tbl[user_id]
      is_admin == bool(payload.meta)
  IN IF user = NoUser THEN InsertUser(NewUser(payload), tbl, store_ok)
     ELSE IF is_admin /\ ~user.is_admin
       THEN IF ~store_ok THEN RolledBack(StoreFault, tbl)
            ELSE Resolved([user EXCEPT !.is_admin = TRUE],
                          [tbl EXCEPT ![user_id].is_admin = TRUE], TRUE)
     ELSE Resolved(user, tbl, FALSE)

(* get_or_create_user returning the new object when the commit failed *)
get_or_create_user_swallow(payload, tbl, store_ok) ==
  LET user_id == payload.sub
      user == tbl[user_id]
      is_admin == bool(payload.meta)
  IN IF user = NoUser
       THEN LET r == InsertUser(NewUser(payload), tbl, store_ok) IN
            IF r.ok THEN r ELSE Resolved(NewUser(payload), tbl, FALSE)
     ELSE IF user.is_admin # is_admin
       THEN IF ~store_ok
              THEN Resolved([user EXCEPT !.is_admin = is_admin], tbl, FALSE)
              ELSE Resolved([user EXCEPT !.is_admin = is_admin],
                            [tbl EXCEPT ![user_id].is_admin = is_admin], TRUE)
     ELSE Resolved(user, tbl, FALSE)

(* result: the user returned (or the exception re-raised) and the table    *)
(* after commit / rollback                                                 *)
get_or_create_user(payload, tbl, store_ok) ==
  LET user_id == payload.sub
      user == tbl[user_id]
      is_admin == bool(payload.meta)
  IN IF user = NoUser THEN InsertUser(NewUser(payload), tbl, store_ok)
     ELSE IF user.is_admin # is_admin
       THEN IF ~store_ok THEN RolledBack(StoreFault, tbl)
            ELSE Resolved([user EXCEPT !.is_admin = is_admin],
                          [tbl EXCEPT ![user_id].is_admin = is_admin], TRUE)
     ELSE Resolved(user, tbl, FALSE)

----------------------------------------------------------------------------
(* Stores *)

NoVal == -1

(* price is a float: the model counts prices in halves of the currency    *)
(* unit, so that PriceUnit is the literal 1 of the tests "price < 1" and   *)
(* the price 1 is a positive price below it.  quantity is an int.          *)
PriceUnit == 2

Product(name, description, price, quantity, user_id) ==
  [name |-> name, description |-> description, price |-> price,
   quantity |-> quantity, user_id |-> user_id]

ExistingIds(prods) == {i \in DOMAIN prods : prods[i] # NoProduct}

(* INTEGER PRIMARY KEY of SQLite: the largest rowid in use plus one *)
NextId(prods) ==
  IF ExistingIds(prods) = {} THEN 1
  ELSE (CHOOSE i \in ExistingIds(prods) :
           \A j \in ExistingIds(prods) : j <= i) + 1

(* User.query.filter_by(email=...).first() *)
UserByEmail(tbl, email) ==
  IF \E s \in Subjects : tbl[s] # NoUser /\ tbl[s].email = email
    THEN tbl[CHOOSE s \in Subjects : tbl[s] # NoUser /\ tbl[s].email = email]
    ELSE NoUser

OwnsProducts(prods, user_id) ==
  \E i \in ExistingIds(prods) : prods[i].user_id = user_id

----------------------------------------------------------------------------
(* Route handlers.  Each returns the response or the exception it raises,  *)
(* and the tables as committed when it ends.                               *)

Returns(resp, tbl, prods) ==
  [ok |-> TRUE, val |-> resp, exc |-> NoExc, users |-> tbl,
   products |-> prods, body |-> TRUE]

Raises(e, tbl, prods, body) ==
  [ok |-> FALSE, val |-> None, exc |-> e, users |-> tbl, products |-> prods,
   body |-> body]

(* update_product without the ownership test *)
update_product_unchecked(path, body, cur, tbl, prods) ==
  IF path.product_id \notin ExistingIds(prods)
    THEN Returns(Response(404, "", "Product not found."), tbl, prods)
  ELSE LET product == prods[path.product_id]
           p1 == IF body.description # ""
                   THEN [product EXCEPT !.description = body.description]
                   ELSE product
       IN Returns(Response(203, "", "Product updated successfully."), tbl,
                  [prods EXCEPT ![path.product_id] = p1])

(* update_product committing each field as it is assigned *)
update_product_partial_commit(path, body, cur, tbl, prods) ==
  IF path.product_id \notin ExistingIds(prods)
    THEN Returns(Response(404, "", "Product not found."), tbl, prods)
  ELSE LET product == prods[path.product_id] IN
  IF product.user_id # cur.user_id /\ ~cur.is_admin
    THEN Raises(abort(403, "You don't have permission to edit this product."),
                tbl, prods, TRUE)
  ELSE LET p1 == IF body.description # ""
                   THEN [product EXCEPT !.description = body.description]
                   ELSE product
       IN
  IF body.price # NoVal /\ body.price < PriceUnit
    THEN Returns(Response(400, "", "Price must be higher than 0."), tbl,
                 [prods EXCEPT ![path.product_id] = p1])
  ELSE LET p2 == IF body.price # NoVal THEN [p1 EXCEPT !.price = body.price]
                 ELSE p1
       IN
  IF body.quantity # NoVal /\ body.quantity < 1
    THEN Returns(Response(400, "", "Quantity must be higher than 0."),
                 tbl, [prods EXCEPT ![path.product_id] = p2])
  ELSE LET p3 == IF body.quantity # NoVal
                   THEN [p2 EXCEPT !.quantity = body.quantity]
                   ELSE p2
       IN Returns(Response(203, "", "Product updated successfully."), tbl,
                  [prods EXCEPT ![path.product_id] = p3])

update_product(path, body, cur, tbl, prods) ==
  IF path.product_id \notin ExistingIds(prods)
    THEN Returns(Response(404, "", "Product not found."), tbl, prods)
  ELSE LET product == prods[path.product_id] IN
  IF product.user_id # cur.user_id /\ ~cur.is_admin
    THEN Raises(abort(403, "You don't have permission to edit this product."),
                tbl, prods, TRUE)
  ELSE LET p1 == IF body.description # ""
                   THEN [product EXCEPT !.description = body.description]
                   ELSE product
       IN
  IF body.price # NoVal /\ body.price < PriceUnit
    THEN Returns(Response(400, "", "Price must be higher than 0."), tbl, prods)
  ELSE LET p2 == IF body.price # NoVal THEN [p1 EXCEPT !.price = body.price]
                 ELSE p1
       IN
  IF body.quantity # NoVal /\ body.quantity < 1
    THEN Returns(Response(400, "", "Quantity must be higher than 0."),
                 tbl, prods)
  ELSE LET p3 == IF body.quantity # NoVal
                   THEN [p2 EXCEPT !.quantity = body.quantity]
                   ELSE p2
       IN Returns(Response(203, "", "Product updated successfully."), tbl,
                  [prods EXCEPT ![path.product_id] = p3])

delete_product(path, cur, tbl, prods) ==
  IF path.product_id \notin ExistingIds(prods)
    THEN Returns(Response(404, "", "Product not found"), tbl, prods)
  ELSE LET product == prods[path.product_id] IN
  IF product.user_id # cur.user_id /\ ~cur.is_admin
    THEN Raises(abort(403,
                      "You don't have permission to delete this product."),
                tbl, prods, TRUE)
  ELSE Returns(Response(200, "", "Product deleted successfully."), tbl,
               [prods EXCEPT ![path.product_id] = NoProduct])

(* add_product without the test of line 179 *)
add_product_no_quantity_check(body, cur, tbl, prods) ==
  IF body.name = ""
    THEN Returns(Response(400, "", "Name is required"), tbl, prods)
  ELSE IF body.price < PriceUnit
    THEN Returns(Response(400, "", "Price must be higher than 0."), tbl, prods)
  ELSE Returns(Response(202, "", "Product added successfully!"), tbl,
               [prods EXCEPT ![NextId(prods)] =
                   Product(body.name, body.description, body.price,
                           body.quantity, cur.user_id)])

add_product(body, cur, tbl, prods) ==
  IF body.name = ""
    THEN Returns(Response(400, "", "Name is required"), tbl, prods)
  ELSE IF body.price < PriceUnit
    THEN Returns(Response(400, "", "Price must be higher than 0."), tbl, prods)
  ELSE IF body.quantity < 1
    THEN Returns(Response(400, "", "Quantity must be higher than 0."),
                 tbl, prods)
  ELSE Returns(Response(202, "", "Product added successfully!"), tbl,
               [prods EXCEPT ![NextId(prods)] =
                   Product(body.name, body.description, body.price,
                           body.quantity, cur.user_id)])

(* Product.to_dict *)
to_dict(id, product) ==
  [id |-> id, name |-> product.name, description |-> product.description,
   price |-> product.price, quantity |-> product.quantity,
   user_id |-> product.user_id]

(* GET /products: the response and the list that is serialised in it *)
get_products(prods) ==
  IF ExistingIds(prods) = {}
    THEN [resp |-> Response(201, "", "The Products database is empty"),
          products_list |-> {}]
    ELSE [resp |-> Response(200, "", "products_list"),
          products_list |-> {to_dict(i, prods[i]) : i \in ExistingIds(prods)}]

(* Config has no attribute AUTH0_MANAGEMENT_CLIENT_ID (src/config.py       *)
(* defines API_MANAGEMENT_CLIENT_ID): building the payload raises before   *)
(* the try block is entered.                                               *)
get_management_api_token ==
  Fail(Raised("AttributeError",
     "type object 'Config' has no attribute 'AUTH0_MANAGEMENT_CLIENT_ID'"))

set_admin(body, cur, tbl, prods) ==
  LET user == UserByEmail(tbl, body.email) IN
  IF user = NoUser
    THEN Returns(Response(404, "", "User not found"), tbl, prods)
  ELSE LET tbl2 == [tbl EXCEPT ![user.user_id].is_admin = TRUE]
           tok == get_management_api_token
       IN IF ~tok.ok /\ tok.exc.type # "RequestException"
            THEN Raises(tok.exc, tbl2, prods, TRUE)
          ELSE IF ~tok.ok
            THEN Returns(Response(500, "",
 "User set as admin in local database, but failed to update Auth0"),
                         tbl2, prods)
          ELSE Returns(Response(200, "",
 "User set as admin successfully in both local database and Auth0"),
                       tbl2, prods)

check_admin(cur, tbl, prods) ==
  Returns(Response(200, "", IF cur.is_admin THEN "is_admin: true"
                            ELSE "is_admin: false"), tbl, prods)

get_all_users_info(cur, tbl, prods) ==
  Returns(Response(200, "", "users"), tbl, prods)

(* db.session.delete(user): the products backref has no delete cascade, so *)
(* the flush sets products.user_id to NULL, which the column forbids.      *)
delete_user(path, cur, tbl, prods) ==
  IF tbl[path.user_id] = NoUser
    THEN Returns(Response(404, "", "User not found"), tbl, prods)
  ELSE IF OwnsProducts(prods, path.user_id)
    THEN Raises(Raised("IntegrityError", "NOT NULL constraint failed"),
                tbl, prods, TRUE)
  ELSE Returns(Response(200, "", "User deleted successfully."),
               [tbl EXCEPT ![path.user_id] = NoUser], prods)

(* requires_admin that lets anyone through while the table holds no admin *)
requires_admin_bootstrap(cur, inner, tbl, prods) ==
  IF cur.is_admin \/ \A s \in Subjects : tbl[s] = NoUser \/ ~tbl[s].is_admin
    THEN inner
  ELSE Raises(abort(403, "Forbidden"), tbl, prods, FALSE)

(* requires_admin without the is_admin test *)
requires_admin_open(cur, inner, tbl, prods) == inner

(* decorator requires_admin around an inner handler result *)
requires_admin(cur, inner, tbl, prods) ==
  IF cur.is_admin THEN inner
  ELSE Raises(abort(403, "Forbidden"), tbl, prods, FALSE)

----------------------------------------------------------------------------
(* Error handlers *)

(* app.errorhandler(AuthError) *)
handle_auth_error(ex) == Response(ex.status, ex.code, ex.text)

(* requires_auth with the first except clause missing *)
(* requires_auth whose generic except clause lets HTTP aborts through *)
requires_auth_except_passes_http(e) ==
  IF e.type = "AuthError"
    THEN Response(e.status, e.code, e.text)
  ELSE IF e.type = "HTTPException"
    THEN Response(e.status, "", e.text)
  ELSE Response(401, "invalid_token", e.text)

requires_auth_except_generic(e) ==
  handle_auth_error(AuthError("invalid_token", e.text, 401))

(* the two except clauses of requires_auth.decorated *)
requires_auth_except(e) ==
  IF e.type = "AuthError"
    THEN Response(e.status, e.code, e.text)
    ELSE handle_auth_error(AuthError("invalid_token", e.text, 401))

----------------------------------------------------------------------------
(* Request inputs *)

T0 == [shape |-> "jwt", kid |-> "k1", sig |-> "k1", aud |-> API_AUDIENCE,
       iss |-> Issuer, exp |-> MaxTime, sub |-> "u1",
       meta |-> "is_admin_true", email |-> "a@x.io"]

Headers ==
  {AbsentHeader, Header(<<>>), Header(<<SP>>), Header(<<SP, SP>>),
   Header(<<W("Basic"), SP, T0>>), Header(<<T0>>),
   Header(<<W("Bearer")>>), Header(<<W("Bearer"), SP>>),
   Header(<<W("Bearer"), SP, T0, SP, T0>>),
   Header(<<W("bearer"), SP, SP, T0>>)}
  \cup {Header(<<W("Bearer"), SP, t>>) : t \in Tokens}

(* request bodies: prices 0, a half, and whole amounts; quantities 0 and   *)
(* positive integers                                                       *)
UpdateBodies ==
  [description : Descriptions, price : {NoVal, 0, 1, MaxVal * PriceUnit},
   quantity : {NoVal, 0, MaxVal}]

InputBodies ==
  [name : {"n1"}, description : {""},
   price : {0, 1, PriceUnit, MaxVal * PriceUnit},
   quantity : {0, 1, MaxVal}]
  \cup {[name |-> "", description |-> "", price |-> PriceUnit,
          quantity |-> 1]}

(* access tokens the identity provider hands out to the browser at login:  *)
(* signed with a published key, for this API, expiring at the end of the   *)
(* current period                                                          *)
IssuedTokens ==
  {t \in Tokens : /\ t.shape = "jwt" /\ ~Flawed(t) /\ t.sub = "u1"
                  /\ t.meta # "is_admin_false"
                  /\ t.kid \in jwks /\ t.exp = now}

----------------------------------------------------------------------------
(* The request state machine *)

IdleReq ==
  [pc |-> "idle", auth |-> AbsentHeader, token |-> NoToken,
   payload |-> NoPayload, user |-> NoUser, route |-> "none", arg |-> None,
   exc |-> NoExc, stage |-> "none", resp |-> NoResp, body |-> FALSE,
   src |-> "none", keys |-> {}, at |-> 0, wrote |-> "none"]

TypeOK ==
  /\ users \in [Subjects -> [user_id : Subjects, email : Emails,
                             name : {NoName} \cup {NameOf[s] : s \in Subjects},
                             is_admin : BOOLEAN] \cup {NoUser}]
  /\ DOMAIN products = ProductIds
  /\ jwks \in SUBSET Kids
  /\ now \in 0..MaxTime
  /\ procs \subseteq Workers
  /\ DOMAIN req = Workers

Init ==
  /\ users = [s \in Subjects |-> NoUser]
  /\ products = [i \in ProductIds |-> NoProduct]
  /\ session = NoSession
  /\ jwks = {"k1"}
  /\ now = 0
  /\ procs = {1}
  /\ req = [w \in Workers |-> IdleReq]

(* requires_auth, line 137: a request arrives and the token is extracted *)
Extract(w) ==
  /\ w \in procs
  /\ req[w].pc = "idle"
  /\ \E h \in Headers :
       LET r == get_token_auth_header(h, session) IN
       req' = [req EXCEPT ![w] =
                 IF r.ok
                   THEN [IdleReq EXCEPT !.pc = "verify", !.auth = h,
                                        !.token = r.val,
                                        !.src = IF Truthy(h) THEN "header"
                                                ELSE "session"]
                   ELSE [IdleReq EXCEPT !.pc = "done", !.auth = h,
                                        !.exc = r.exc, !.stage = "extract",
                                        !.resp = requires_auth_except(r.exc)]]
  /\ UNCHANGED <<users, products, session, jwks, now, procs>>

(* requires_auth, line 139 *)
Verify(w) ==
  /\ w \in procs
  /\ req[w].pc = "verify"
  /\ \E fetched \in BOOLEAN :
       LET r == verify_jwt(req[w].token, jwks, fetched, now) IN
       req' = [req EXCEPT ![w] =
                 IF r.ok
                   THEN [@ EXCEPT !.pc = "resolve", !.payload = r.val,
                                  !.auth = AbsentHeader,
                                  !.keys = jwks, !.at = now]
                   ELSE [@ EXCEPT !.pc = "done", !.exc = r.exc,
                                  !.stage = "verify",
                                  !.auth = AbsentHeader,
                                  !.keys = IF fetched THEN jwks ELSE {},
                                  !.at = now,
                                  !.resp = requires_auth_except(r.exc)]]
  /\ UNCHANGED <<users, products, session, jwks, now, procs>>

(* which commit of get_or_create_user went through: that of line 113, that *)
(* of line 123, or none                                                    *)
Committed(r, tbl, payload) ==
  IF ~r.wrote THEN "none"
  ELSE IF tbl[payload.sub] = NoUser THEN "insert" ELSE "update"

(* requires_auth, line 140.  wrote keeps, while the handler is pending,    *)
(* what the resolution committed.                                          *)
Resolve(w) ==
  /\ w \in procs
  /\ req[w].pc = "resolve"
  /\ \E store_ok \in BOOLEAN :
       LET r == get_or_create_user(req[w].payload, users, store_ok) IN
       /\ users' = r.tbl
       /\ req' = [req EXCEPT ![w] =
                    IF r.ok
                      THEN [@ EXCEPT !.pc = "handler", !.user = r.val,
                                     !.wrote = Committed(r, users,
                                                         req[w].payload)]
                      ELSE [@ EXCEPT !.pc = "done", !.exc = r.exc,
                                     !.stage = "resolve",
                                     !.resp = requires_auth_except(r.exc)]]
  /\ UNCHANGED <<products, session, jwks, now, procs>>

(* requires_auth, line 141: the wrapped function f is called; the except   *)
(* clauses handle an exception raised by f                                 *)
Finish(w, route, arg, r) ==
  /\ users' = r.users
  /\ products' = r.products
  /\ req' = [req EXCEPT ![w] =
               [@ EXCEPT !.pc = "done", !.route = route, !.arg = arg,
                         !.body = r.body, !.token = NoToken,
                         !.payload = NoPayload, !.keys = {}, !.at = 0,
                         !.src = "none", !.wrote = "none",
                         !.exc = r.exc,
                         !.stage = IF r.ok THEN "none" ELSE "handler",
                         !.resp = IF r.ok THEN r.val
                                  ELSE requires_auth_except(r.exc)]]
  /\ UNCHANGED <<session, jwks, now, procs>>

UpdateProduct(w) ==
  /\ w \in procs
  /\ req[w].pc = "handler"
  /\ \E i \in ProductIds, b \in UpdateBodies :
       Finish(w, "update_product", [product_id |-> i, body |-> b],
              update_product([product_id |-> i], b, req[w].user, users,
                             products))

DeleteProduct(w) ==
  /\ w \in procs
  /\ req[w].pc = "handler"
  /\ \E i \in ProductIds :
       Finish(w, "delete_product", [product_id |-> i],
              delete_product([product_id |-> i], req[w].user, users,
                             products))

AddProduct(w) ==
  /\ w \in procs
  /\ req[w].pc = "handler"
  /\ NextId(products) \in ProductIds
  /\ \E b \in InputBodies :
       Finish(w, "add_product", [body |-> b],
              add_product(b, req[w].user, users, products))

SetAdmin(w) ==
  /\ w \in procs
  /\ req[w].pc = "handler"
  /\ \E e \in Emails \cup {"nobody@x.io"} :
       Finish(w, "set_admin", [email |-> e],
              requires_admin(req[w].user,
                             set_admin([email |-> e], req[w].user, users,
                                       products),
                             users, products))

CheckAdmin(w) ==
  /\ w \in procs
  /\ req[w].pc = "handler"
  /\ Finish(w, "check_admin", None, check_admin(req[w].user, users, products))

GetAllUsersInfo(w) ==
  /\ w \in procs
  /\ req[w].pc = "handler"
  /\ Finish(w, "get_all_users_info", None,
            requires_admin(req[w].user,
                           get_all_users_info(req[w].user, users, products),
                           users, products))

DeleteUser(w) ==
  /\ w \in procs
  /\ req[w].pc = "handler"
  /\ \E s \in Subjects :
       Finish(w, "delete_user", [user_id |-> s],
              requires_admin(req[w].user,
                             delete_user([user_id |-> s], req[w].user, users,
                                         products),
                             users, products))

(* app.errorhandler(Exception) *)
handle_exception(e) ==
  IF e.type = "HTTPException" THEN Response(e.status, "", e.text)
  ELSE Response(500, "", "An unexpected error occurred")

(* result of GET /callback *)
CallbackResult(resp, e, stage, user, tbl, sess) ==
  [resp |-> resp, exc |-> e, stage |-> stage, user |-> user, users |-> tbl,
   session |-> sess]

(* the session's user record written at lines 111-116 *)
SessionUser(user, t) ==
  [user_id |-> user.user_id, email |-> user.email, name |-> user.name,
   access_token |-> t]

(* callback without the except clause of line 121 *)
callback_http_error_uncaught(outcome, t, tbl, sess) ==
  LET r == get_or_create_user(Claims(t), tbl, outcome # "store_error") IN
  IF outcome = "oauth_error"
    THEN CallbackResult(Response(500, "", "OAuth authentication error"),
                        Raised("OAuth2Error", "oauth"), "token_exchange",
                        NoUser, tbl, sess)
  ELSE IF outcome = "http_error"
    THEN CallbackResult(handle_exception(Raised("HTTPError", "http")),
                        Raised("HTTPError", "http"), "userinfo",
                        NoUser, tbl, sess)
  ELSE IF outcome = "json_error"
    THEN CallbackResult(Response(500, "", "Failed to decode user information"),
                        Raised("JSONDecodeError", "json"), "userinfo",
                        NoUser, tbl, sess)
  ELSE IF ~r.ok
    THEN CallbackResult(handle_exception(r.exc), r.exc, "get_or_create_user",
                        NoUser, tbl, sess)
  ELSE CallbackResult(Response(302, "", "/"), NoExc, "none", r.val, r.tbl,
                      SessionUser(r.val, t))

(* callback storing the session record before the user is resolved *)
callback_session_first(outcome, t, tbl, sess) ==
  LET r == get_or_create_user(Claims(t), tbl, outcome # "store_error") IN
  IF outcome = "oauth_error"
    THEN CallbackResult(Response(500, "", "OAuth authentication error"),
                        Raised("OAuth2Error", "oauth"), "token_exchange",
                        NoUser, tbl, sess)
  ELSE IF outcome = "http_error"
    THEN CallbackResult(Response(500, "", "Failed to fetch user information"),
                        Raised("HTTPError", "http"), "userinfo",
                        NoUser, tbl, sess)
  ELSE IF outcome = "json_error"
    THEN CallbackResult(Response(500, "", "Failed to decode user information"),
                        Raised("JSONDecodeError", "json"), "userinfo",
                        NoUser, tbl, sess)
  ELSE IF ~r.ok
    THEN CallbackResult(handle_exception(r.exc), r.exc, "get_or_create_user",
                        NoUser, tbl,
                        [user_id |-> t.sub, email |-> t.email,
                         name |-> NameOf[t.sub], access_token |-> t])
  ELSE CallbackResult(Response(302, "", "/"), NoExc, "none", r.val, r.tbl,
                      SessionUser(r.val, t))

(* GET /callback.  outcome is what the provider calls do: the token         *)
(* exchange raises OAuth2Error, the userinfo fetch raises HTTPError, its    *)
(* body is not JSON, or both succeed and the store then takes or fails the *)
(* commit of get_or_create_user.  t is the access token of the exchange.   *)
(* An exception of get_or_create_user is caught by none of the except      *)
(* clauses and reaches app.errorhandler(Exception).                        *)
callback(outcome, t, tbl, sess) ==
  LET r == get_or_create_user(Claims(t), tbl, outcome # "store_error") IN
  IF outcome = "oauth_error"
    THEN CallbackResult(Response(500, "", "OAuth authentication error"),
                        Raised("OAuth2Error", "oauth"), "token_exchange",
                        NoUser, tbl, sess)
  ELSE IF outcome = "http_error"
    THEN CallbackResult(Response(500, "", "Failed to fetch user information"),
                        Raised("HTTPError", "http"), "userinfo",
                        NoUser, tbl, sess)
  ELSE IF outcome = "json_error"
    THEN CallbackResult(Response(500, "", "Failed to decode user information"),
                        Raised("JSONDecodeError", "json"), "userinfo",
                        NoUser, tbl, sess)
  ELSE IF ~r.ok
    THEN CallbackResult(handle_exception(r.exc), r.exc, "get_or_create_user",
                        NoUser, tbl, sess)
  ELSE CallbackResult(Response(302, "", "/"), NoExc, "none", r.val, r.tbl,
                      SessionUser(r.val, t))

CallbackOutcomes ==
  {"ok", "oauth_error", "http_error", "json_error", "store_error"}

Callback(w) ==
  /\ w \in procs
  /\ req[w].pc = "idle"
  /\ \E outcome \in CallbackOutcomes, t \in IssuedTokens :
       LET r == callback(outcome, t, users, session) IN
       /\ outcome = "store_error" => r.exc = StoreFault
       /\ users' = r.users
       /\ session' = r.session
       /\ req' = [req EXCEPT ![w] =
                    [IdleReq EXCEPT !.pc = "done", !.route = "callback",
                                    !.arg = [outcome |-> outcome, token |-> t],
                                    !.exc = r.exc, !.stage = r.stage,
                                    !.resp = r.resp, !.user = r.user]]
  /\ UNCHANGED <<products, jwks, now, procs>>

(* logout returning the redirect without session.clear() *)
logout_keeps_session(sess) ==
  [session |-> sess, resp |-> Response(302, "", "/v2/logout")]

(* GET /logout: session.clear(), then the redirect to the provider *)
logout(sess) ==
  [session |-> NoSession, resp |-> Response(302, "", "/v2/logout")]

(* arg records whether the request came with a session user record, and   *)
(* the access token of that record                                         *)
Logout(w) ==
  /\ w \in procs
  /\ req[w].pc = "idle"
  /\ LET r == logout(session) IN
       /\ session' = r.session
       /\ req' = [req EXCEPT ![w] =
                    [IdleReq EXCEPT !.pc = "done", !.route = "logout",
                                    !.arg = [had_session |->
                                               session # NoSession,
                                             token |->
                                               IF session # NoSession
                                                 THEN session.access_token
                                                 ELSE NoToken],
                                    !.resp = r.resp]]
  /\ UNCHANGED <<users, products, jwks, now, procs>>

(* GET /products, which no decorator guards.  arg holds the list that the  *)
(* response serialises.                                                    *)
GetProducts(w) ==
  /\ w \in procs
  /\ req[w].pc = "idle"
  /\ LET r == get_products(products) IN
       req' = [req EXCEPT ![w] =
                 [IdleReq EXCEPT !.pc = "done", !.route = "get_products",
                                 !.arg = [products_list |-> r.products_list],
                                 !.resp = r.resp]]
  /\ UNCHANGED <<users, products, session, jwks, now, procs>>

(* the response has been sent: the worker takes the next request *)
Respond(w) ==
  /\ w \in procs
  /\ req[w].pc = "done"
  /\ req' = [req EXCEPT ![w] = IdleReq]
  /\ UNCHANGED <<users, products, session, jwks, now, procs>>

(* Environment: time passes; the provider publishes a new signing key and  *)
(* later retires the old one                                               *)
Tick ==
  /\ now < MaxTime
  /\ now' = now + 1
  /\ UNCHANGED <<users, products, session, jwks, procs, req>>

RotateKeys ==
  /\ \/ jwks = {"k1"} /\ jwks' = {"k1", "k2"}
     \/ jwks = {"k1", "k2"} /\ jwks' = {"k2"}
  /\ UNCHANGED <<users, products, session, now, procs, req>>

Next ==
  \/ \E w \in Workers : Extract(w)
  \/ \E w \in Workers : Verify(w)
  \/ \E w \in Workers : Resolve(w)
  \/ \E w \in Workers : UpdateProduct(w)
  \/ \E w \in Workers : DeleteProduct(w)
  \/ \E w \in Workers : AddProduct(w)
  \/ \E w \in Workers : SetAdmin(w)
  \/ \E w \in Workers : CheckAdmin(w)
  \/ \E w \in Workers : GetAllUsersInfo(w)
  \/ \E w \in Workers : DeleteUser(w)
  \/ \E w \in Workers : Callback(w)
  \/ \E w \in Workers : Logout(w)
  \/ \E w \in Workers : GetProducts(w)
  \/ \E w \in Workers : Respond(w)
  \/ Tick
  \/ RotateKeys

Spec == Init /\ [][Next]_vars

----------------------------------------------------------------------------
(* Concurrent requests: get_or_create_user at the grain of the store.  The *)
(* query of line 100 and the commit of line 113 or 123 are two steps, and  *)
(* two workers run requests at the same time.                              *)

KeyTaken ==
  Raised("IntegrityError", "UNIQUE constraint failed: users.user_id")

RowGone == Raised("StaleDataError", "UPDATE statement expected to match 1 row")

(* lines 100-110 and 119-121: the row is read and the object to commit is  *)
(* prepared; kind names the pending commit                                 *)
query_user(payload, tbl) ==
  LET user == tbl[payload.sub]
      is_admin == bool(payload.meta)
  IN IF user = NoUser THEN [user |-> NewUser(payload), kind |-> "insert"]
     ELSE IF user.is_admin # is_admin
       THEN [user |-> [user EXCEPT !.is_admin = is_admin], kind |-> "update"]
     ELSE [user |-> user, kind |-> "none"]

(* lines 111-118 and 122-128: the commit against the table as it is now;   *)
(* any exception is rolled back and re-raised                              *)
commit_user(user, kind, tbl, store_ok) ==
  IF ~store_ok THEN RolledBack(StoreFault, tbl)
  ELSE IF kind = "insert"
    THEN IF tbl[user.user_id] # NoUser THEN RolledBack(KeyTaken, tbl)
         ELSE IF ~InsertAllowed(tbl, user) THEN RolledBack(EmailTaken, tbl)
         ELSE Resolved(user, [tbl EXCEPT ![user.user_id] = user], TRUE)
  ELSE IF tbl[user.user_id] = NoUser THEN RolledBack(RowGone, tbl)
  ELSE Resolved(user, [tbl EXCEPT ![user.user_id].is_admin = user.is_admin],
                TRUE)

InitRace ==
  /\ users = [s \in Subjects |-> NoUser]
  /\ products = [i \in ProductIds |-> NoProduct]
  /\ session = NoSession
  /\ jwks = {"k1"}
  /\ now = 0
  /\ procs = Workers
  /\ req = [w \in Workers |-> IdleReq]

QueryUser(w) ==
  /\ w \in procs
  /\ req[w].pc = "resolve"
  /\ LET q == query_user(req[w].payload, users) IN
       req' = [req EXCEPT ![w] =
                 [@ EXCEPT !.pc = IF q.kind = "none" THEN "handler"
                                  ELSE "commit",
                           !.user = q.user, !.wrote = q.kind]]
  /\ UNCHANGED <<users, products, session, jwks, now, procs>>

CommitUser(w) ==
  /\ w \in procs
  /\ req[w].pc = "commit"
  /\ \E store_ok \in BOOLEAN :
       LET r == commit_user(req[w].user, req[w].wrote, users, store_ok) IN
       /\ users' = r.tbl
       /\ req' = [req EXCEPT ![w] =
                    IF r.ok
                      THEN [@ EXCEPT !.pc = "handler"]
                      ELSE [@ EXCEPT !.pc = "done", !.exc = r.exc,
                                     !.stage = "resolve", !.user = NoUser,
                                     !.wrote = "none",
                                     !.resp = requires_auth_except(r.exc)]]
  /\ UNCHANGED <<products, session, jwks, now, procs>>

NextRace ==
  \/ \E w \in Workers : Extract(w)
  \/ \E w \in Workers : Verify(w)
  \/ \E w \in Workers : QueryUser(w)
  \/ \E w \in Workers : CommitUser(w)
  \/ \E w \in Workers : CheckAdmin(w)
  \/ \E w \in Workers : Respond(w)

SpecRace == InitRace /\ [][NextRace]_vars

----------------------------------------------------------------------------
(* Properties *)

(* what verify_jwt has to establish about a token, given the key set that  *)
(* was fetched and the time of the check                                   *)
Acceptable(t, keys, clock) ==
  /\ t # NoToken
  /\ t.shape = "jwt"
  /\ t.kid \in keys
  /\ t.sig = t.kid
  /\ t.aud = API_AUDIENCE
  /\ t.iss = Issuer
  /\ t.exp >= clock

(* C1: whenever requires_auth lets the wrapped handler run, the token it   *)
(* used, from the header or from the session, was accepted by verify_jwt   *)
(* in that request: its key id is in the fetched key set, its signature    *)
(* verifies, audience and issuer are the configured ones and it is not     *)
(* expired.                                                                *)
C1_NoVerificationBypass ==
  \A w \in Workers :
    req[w].pc = "handler" =>
      /\ req[w].src \in {"header", "session"}
      /\ req[w].keys # {}
      /\ Acceptable(req[w].token, req[w].keys, req[w].at)
      /\ req[w].payload = Claims(req[w].token)

C1_Witness ==
  \E w \in Workers :
    /\ req[w].pc = "handler"
    /\ req[w].src = "session"
    /\ req[w].keys = {"k1", "k2"}

(* C2: the guard chain runs extraction, verification, resolution and then  *)
(* the handler; when one of the first three fails the handler is never     *)
(* executed and the response carries the status and body of the error that *)
(* was raised.                                                             *)
C2_GuardChainOrder ==
  \A w \in Workers :
    LET r == req[w] IN
    /\ r.pc = "verify" =>
         r.token # NoToken /\ r.payload = NoPayload /\ r.user = NoUser
         /\ r.route = "none"
    /\ r.pc = "resolve" =>
         r.token # NoToken /\ r.payload # NoPayload /\ r.user = NoUser
         /\ r.route = "none"
    /\ r.pc = "handler" =>
         r.token # NoToken /\ r.payload # NoPayload /\ r.user # NoUser
         /\ r.user.user_id = r.payload.sub /\ r.route = "none"
    /\ (r.pc = "done" /\ r.stage \in {"extract", "verify", "resolve"}) =>
         /\ r.route = "none" /\ ~r.body /\ r.user = NoUser
         /\ r.exc # NoExc
         /\ r.resp # NoResp
         /\ r.resp.text = r.exc.text
         /\ r.exc.type = "AuthError" =>
              r.resp.status = r.exc.status /\ r.resp.code = r.exc.code
         /\ r.exc.type # "AuthError" =>
              r.resp.status = 401 /\ r.resp.code = "invalid_token"

C2_Witness ==
  \E w \in Workers :
    /\ req[w].pc = "done"
    /\ req[w].stage = "resolve"
    /\ req[w].resp.status = 401
    /\ \E s \in Subjects : users[s] # NoUser

(* the handler step of worker w: requires_auth calls the wrapped function *)
HandlerStep(w) == req[w].pc = "handler" /\ req'[w].pc = "done"

ResolveStep(w) == req[w].pc = "resolve" /\ req'[w].pc \in {"handler", "done"}

ExtractStep(w) ==
  /\ req[w].pc = "idle"
  /\ req'[w].pc \in {"verify", "done"}
  /\ req'[w].route = "none"

NeitherOwnerNorAdmin(u, prods, pid) ==
  /\ pid \in ExistingIds(prods)
  /\ prods[pid].user_id # u.user_id
  /\ ~u.is_admin

(* C3: an update or delete request by a user who is neither the owner of   *)
(* the product nor an admin leaves the stored product as it was: it still  *)
(* exists with the same name, description, price, quantity and owner.      *)
C3_NonOwnerLeavesProduct ==
  [][\A w \in Workers :
       (/\ HandlerStep(w)
        /\ req'[w].route \in {"update_product", "delete_product"}
        /\ NeitherOwnerNorAdmin(req[w].user, products,
                                req'[w].arg.product_id))
       => products' = products]_vars

C3_Witness ==
  \E w \in Workers :
    /\ req[w].pc = "done"
    /\ req[w].route = "update_product"
    /\ req[w].stage = "handler"
    /\ req[w].arg.body.price = MaxVal * PriceUnit
    /\ NeitherOwnerNorAdmin(req[w].user, products, req[w].arg.product_id)
    /\ products[req[w].arg.product_id].price = PriceUnit

(* C4: an update or delete request on an existing product by a user who is *)
(* neither its owner nor an admin is answered with status 403.             *)
C4_NonOwnerGets403 ==
  \A w \in Workers :
    (/\ req[w].pc = "done"
     /\ req[w].route \in {"update_product", "delete_product"}
     /\ NeitherOwnerNorAdmin(req[w].user, products, req[w].arg.product_id))
    => req[w].resp.status = 403

AdminRoutes == {"set_admin", "get_all_users_info", "delete_user"}

(* C5: a request to an endpoint guarded by requires_auth and               *)
(* requires_admin by an authenticated user whose admin flag is false is    *)
(* answered with status 403.                                               *)
C5_NonAdminGets403 ==
  \A w \in Workers :
    (/\ req[w].pc = "done"
     /\ req[w].route \in AdminRoutes
     /\ ~req[w].user.is_admin)
    => req[w].resp.status = 403

(* C6: POST /admin/set or DELETE /users/{id} by an authenticated non-admin *)
(* caller never runs the handler body: the request changes no user record  *)
(* other than by the caller's own get-or-create / reconcile.               *)
C6_NonAdminNoUserEffect ==
  [][\A w \in Workers :
       /\ (/\ HandlerStep(w)
           /\ req'[w].route \in {"set_admin", "delete_user"}
           /\ ~req[w].user.is_admin)
          => (users' = users /\ ~req'[w].body)
       /\ ResolveStep(w) =>
            \A s \in Subjects \ {req[w].payload.sub} : users'[s] = users[s]
     ]_vars

C6_Witness ==
  \E w \in Workers :
    /\ req[w].pc = "done"
    /\ req[w].route = "set_admin"
    /\ ~req[w].user.is_admin
    /\ \E s \in Subjects \ {req[w].user.user_id} :
         /\ users[s] # NoUser
         /\ users[s].email = req[w].arg.email
         /\ ~users[s].is_admin

(* the request of worker w has been through verify_jwt with a fetched key  *)
(* set                                                                     *)
Verified(w) ==
  /\ req[w].keys # {}
  /\ req[w].token # NoToken
  /\ req[w].token.shape = "jwt"

VerifyFailedWith(w, codes) ==
  /\ req[w].pc = "done"
  /\ req[w].stage = "verify"
  /\ req[w].exc.type = "AuthError"
  /\ req[w].exc.code \in codes
  /\ req[w].exc.status = 401

(* C7: for a token signed by a key that is not in the current key set,     *)
(* verify_jwt fails with an AuthError of code invalid_header and status    *)
(* 401 and returns no claim set.                                           *)
C7_ForeignKeyInvalidHeader ==
  \A w \in Workers :
    (Verified(w) /\ req[w].token.sig \notin req[w].keys)
    => VerifyFailedWith(w, {"invalid_header"})

(* C8 as stated: for a token whose key id matches a fetched key, an        *)
(* expired token fails with token_expired, and one whose audience or       *)
(* issuer mismatches fails with invalid_claims or invalid_token; the       *)
(* status is 401.                                                          *)
C8_ExpiredOrMismatch ==
  \A w \in Workers :
    (Verified(w) /\ req[w].token.kid \in req[w].keys)
    => LET t == req[w].token IN
       /\ t.exp < req[w].at => VerifyFailedWith(w, {"token_expired"})
       /\ (t.aud # API_AUDIENCE \/ t.iss # Issuer)
            => VerifyFailedWith(w, {"invalid_claims", "invalid_token"})

(* C8 amended: for a token whose key id matches a fetched key and whose    *)
(* signature verifies with that key, an expired token fails with           *)
(* token_expired, and an unexpired one whose audience or issuer mismatches *)
(* fails with invalid_claims; the status is 401.                           *)
C8_ExpiredThenMismatch ==
  \A w \in Workers :
    (Verified(w) /\ req[w].token.kid \in req[w].keys
                 /\ req[w].token.sig = req[w].token.kid)
    => LET t == req[w].token IN
       /\ t.exp < req[w].at => VerifyFailedWith(w, {"token_expired"})
       /\ (t.exp >= req[w].at /\ (t.aud # API_AUDIENCE \/ t.iss # Issuer))
            => VerifyFailedWith(w, {"invalid_claims"})

C8_Witness ==
  \E w \in Workers :
    /\ Verified(w)
    /\ VerifyFailedWith(w, {"token_expired"})
    /\ req[w].token.aud # API_AUDIENCE
    /\ req[w].token.sig = req[w].token.kid

(* C9: with no Authorization header, extraction returns the access_token   *)
(* of the session's user record when there is one, and fails with          *)
(* authorization_header_missing and status 401 when there is none.         *)
C9_SessionFallback ==
  [][\A w \in Workers :
       (ExtractStep(w) /\ ~req'[w].auth.present) =>
         IF session # NoSession
           THEN /\ req'[w].pc = "verify"
                /\ req'[w].token = session.access_token
           ELSE /\ req'[w].pc = "done"
                /\ req'[w].exc =
                     AuthError("authorization_header_missing",
                               "Authorization header is expected", 401)
                /\ req'[w].resp.status = 401
     ]_vars

C9_Witness ==
  \E w \in Workers :
    /\ req[w].pc = "verify"
    /\ ~req[w].auth.present
    /\ session # NoSession
    /\ req[w].token = session.access_token

Malformed(h) ==
  /\ h.present
  /\ LET parts == split(h.value) IN
       \/ Len(parts) = 0
       \/ Len(parts) = 1
       \/ Len(parts) > 2
       \/ ~LowerIsBearer(parts[1])

(* C10: a request whose Authorization header is present but malformed      *)
(* (scheme not Bearer, no token segment, more than two parts, or no parts  *)
(* at all) fails extraction with code invalid_header and status 401, and   *)
(* the session's token is not used instead.                                *)
C10_MalformedHeaderRejected ==
  \A w \in Workers :
    Malformed(req[w].auth) =>
      /\ req[w].pc = "done"
      /\ req[w].stage = "extract"
      /\ req[w].exc.type = "AuthError"
      /\ req[w].exc.code = "invalid_header"
      /\ req[w].exc.status = 401
      /\ req[w].token = NoToken

(* the claim sets that reach get_or_create_user *)
Payloads == {Claims(t) : t \in {x \in Tokens : x.shape = "jwt"}}

(* the step in which get_or_create_user returned a user to requires_auth *)
ResolvedStep(w) == req[w].pc = "resolve" /\ req'[w].pc = "handler"

(* the step in which GET /callback ran to its redirect *)
CallbackDone(w) ==
  /\ req[w].pc = "idle"
  /\ req'[w].pc = "done"
  /\ req'[w].route = "callback"

CallbackSucceeded(w) == CallbackDone(w) /\ req'[w].stage = "none"

(* what C11 states about the table after a call with claim set p *)
StoredAsResolved(p, before, after) ==
  LET s == p.sub IN
  /\ after[s] # NoUser
  /\ Cardinality({k \in Subjects :
                    after[k] # NoUser /\ after[k].user_id = s}) = 1
  /\ after[s].is_admin = bool(p.meta)
  /\ before[s] = NoUser =>
       /\ after[s].email = p.email
       /\ after[s].name = IF p.name = "" THEN NoName ELSE p.name
  /\ before[s] # NoUser =>
       after[s] = [before[s] EXCEPT !.is_admin = bool(p.meta)]

(* C11: after get_or_create_user returns for a claim set with subject s,   *)
(* exactly one User with user_id s is stored and its is_admin is the admin *)
(* indicator derived from the claims; a user that was unseen holds the     *)
(* e-mail and name of the claims (None for an empty name), and for a user  *)
(* that existed nothing but is_admin has changed.                          *)
C11_UserAfterResolution ==
  [][\A w \in Workers :
       /\ ResolvedStep(w) =>
            /\ StoredAsResolved(req[w].payload, users, users')
            /\ req'[w].user = users'[req[w].payload.sub]
       /\ CallbackSucceeded(w) =>
            /\ StoredAsResolved(Claims(req'[w].arg.token), users, users')
            /\ req'[w].user = users'[req'[w].arg.token.sub]
     ]_vars

(* a request found its user with the other admin flag and is about to run  *)
(* the handler with the flag of its claims                                 *)
C11_Witness ==
  \E w \in Workers :
    /\ req[w].pc = "handler"
    /\ req[w].src = "header"
    /\ ~bool(req[w].payload.meta)
    /\ users[req[w].payload.sub] = req[w].user
    /\ ~req[w].user.is_admin
    /\ session # NoSession
    /\ session.user_id = req[w].payload.sub
    /\ session.access_token.meta = "is_admin_true"

(* C12: resolving the same subject twice in succession with the same       *)
(* claim-derived admin indicator: the second call of get_or_create_user    *)
(* writes nothing (no add, no commit), leaves the user table as the first  *)
(* call left it and returns the same user.                                 *)
C12_IdempotentResolution ==
  [][\A w \in Workers :
       ResolvedStep(w) =>
         \A q \in {x \in Payloads :
                     /\ x.sub = req[w].payload.sub
                     /\ bool(x.meta) = bool(req[w].payload.meta)} :
           \A store_ok \in BOOLEAN :
             get_or_create_user(q, users', store_ok) =
               Resolved(req'[w].user, users', FALSE)
     ]_vars

(* /callback resolved the subject of the session's token, and the request  *)
(* that presented that token from the session has resolved it again        *)
C12_Witness ==
  \E w \in Workers :
    /\ req[w].pc = "handler"
    /\ req[w].src = "session"
    /\ session # NoSession
    /\ req[w].payload = Claims(session.access_token)
    /\ users[req[w].payload.sub] = req[w].user
    /\ req[w].wrote = "none"
    /\ ~get_or_create_user(req[w].payload, users, TRUE).wrote

LogoutDone(w) ==
  /\ req[w].pc = "idle"
  /\ req'[w].pc = "done"
  /\ req'[w].route = "logout"

(* C14: over any sequence of callback and logout requests, the session's   *)
(* user record is absent at the start, is removed only by logout and is    *)
(* written only by a callback whose token exchange, userinfo fetch and     *)
(* user resolution all succeeded; it then holds the user_id, email and     *)
(* name of the resolved user and the access token of that exchange.  A     *)
(* callback that fails at any step leaves the session as it was and        *)
(* answers with status 500 and an error text.                              *)
C14_SessionOnlyFromCallback ==
  /\ session = NoSession
  /\ [][/\ session' # session =>
            \E w \in Workers :
              \/ LogoutDone(w) /\ session' = NoSession
              \/ CallbackSucceeded(w)
        /\ \A w \in Workers :
             /\ CallbackSucceeded(w) =>
                  LET t == req'[w].arg.token IN
                  /\ req'[w].arg.outcome = "ok"
                  /\ users'[t.sub] # NoUser
                  /\ session' = [user_id |-> users'[t.sub].user_id,
                                 email |-> users'[t.sub].email,
                                 name |-> users'[t.sub].name,
                                 access_token |-> t]
             /\ (CallbackDone(w) /\ ~CallbackSucceeded(w)) =>
                  /\ session' = session
                  /\ req'[w].resp.status = 500
                  /\ req'[w].resp.text # ""
       ]_vars

C14_Witness ==
  \E w \in Workers :
    /\ req[w].pc = "done"
    /\ req[w].route = "callback"
    /\ req[w].stage = "none"
    /\ session # NoSession
    /\ session.access_token = req[w].arg.token
    /\ session.user_id = req[w].user.user_id
    /\ session.email = req[w].user.email

(* C15: GET /logout leaves the session empty; the session stays empty     *)
(* until a callback succeeds; and while it is empty every request to a     *)
(* protected endpoint that carries no Authorization header fails with      *)
(* authorization_header_missing and status 401.                            *)
C15_LogoutThenMissingHeader ==
  [][/\ \A w \in Workers : LogoutDone(w) => session' = NoSession
     /\ (session = NoSession /\ session' # NoSession) =>
          \E w \in Workers : CallbackSucceeded(w)
     /\ \A w \in Workers :
          (ExtractStep(w) /\ ~req'[w].auth.present /\ session = NoSession)
          => /\ req'[w].pc = "done"
             /\ req'[w].stage = "extract"
             /\ req'[w].exc.type = "AuthError"
             /\ req'[w].resp =
                  Response(401, "authorization_header_missing",
                           "Authorization header is expected")
    ]_vars

(* logout has just cleared a session that held a user record *)
C15_Witness ==
  \E w \in Workers :
    /\ req[w].pc = "done"
    /\ req[w].route = "logout"
    /\ req[w].arg.had_session
    /\ session = NoSession
    /\ users["u1"] # NoUser

(* POST /admin/set has been answered for an admin caller *)
SetAdminByAdmin(w) ==
  /\ req[w].pc = "done"
  /\ req[w].route = "set_admin"
  /\ req[w].user.is_admin

(* C16: POST /admin/set by an authenticated admin: when no user has the    *)
(* given email the response is 404 and no user record changes; otherwise   *)
(* the admin flag of that user is set to true and the response is 200,     *)
(* whatever the outcome of the sync to the identity provider.              *)
C16_SetAdminOutcome ==
  [][\A w \in Workers :
       (HandlerStep(w) /\ req'[w].route = "set_admin" /\ req[w].user.is_admin)
       => LET target == UserByEmail(users, req'[w].arg.email) IN
          IF target = NoUser
            THEN req'[w].resp.status = 404 /\ users' = users
            ELSE /\ users'[target.user_id] # NoUser
                 /\ users'[target.user_id].is_admin
                 /\ req'[w].resp.status = 200
     ]_vars

(* C17: when the management-API token cannot be obtained,                  *)
(* get_management_api_token returns no token without raising, and          *)
(* POST /admin/set completes with the local admin flag set and a response  *)
(* that reports that the remote sync failed.                               *)
C17_MissingTokenPartialSuccess ==
  \A w \in Workers :
    (SetAdminByAdmin(w) /\ UserByEmail(users, req[w].arg.email) # NoUser)
    => /\ get_management_api_token = Ok(None)
       /\ req[w].exc = NoExc
       /\ UserByEmail(users, req[w].arg.email).is_admin
       /\ req[w].resp.text =
           "User set as admin in local database, but failed to update Auth0"

(* exceptions that leave the view function: those of the guard chain, of   *)
(* a wrapped handler and of get_or_create_user in /callback                *)
Escaped(r) ==
  /\ r.pc = "done"
  /\ r.exc # NoExc
  /\ r.stage \in {"extract", "verify", "resolve", "handler",
                   "get_or_create_user"}

(* C18: any exception that is neither an AuthError nor an HTTP exception,  *)
(* raised while a request is handled, inside requires_auth included, is    *)
(* answered with status 500 and the generic text "An unexpected error      *)
(* occurred", which does not contain the text of the exception.            *)
C18_UnclassifiedGives500 ==
  \A w \in Workers :
    (Escaped(req[w]) /\ req[w].exc.type \notin {"AuthError", "HTTPException"})
    => /\ req[w].resp = Response(500, "", "An unexpected error occurred")
       /\ req[w].resp.text # req[w].exc.text

(* C19: in every reachable state of the store every stored product has    *)
(* price > 0 and quantity > 0.                                             *)
C19_PositivePriceAndQuantity ==
  \A i \in ExistingIds(products) :
    products[i].price > 0 /\ products[i].quantity > 0

(* an update with a valid price and an invalid quantity was refused and    *)
(* the product has kept its price                                          *)
C19_Witness ==
  \E w \in Workers :
    /\ req[w].pc = "done"
    /\ req[w].route = "update_product"
    /\ req[w].resp.status = 400
    /\ req[w].arg.body.price = MaxVal * PriceUnit
    /\ req[w].arg.body.quantity = 0
    /\ req[w].arg.product_id \in ExistingIds(products)
    /\ products[req[w].arg.product_id].price = PriceUnit
    /\ products[req[w].arg.product_id].quantity > 0

(* the step in which GET /products ran *)
GetProductsDone(w) ==
  /\ req[w].pc = "idle"
  /\ req'[w].pc = "done"
  /\ req'[w].route = "get_products"

(* C20: POST /products/create with a non-empty name, a price > 0 and a     *)
(* quantity > 0 by authenticated user U returns 202 and stores exactly one *)
(* new product, with those fields and owner U; a stored product changes    *)
(* only by an update or delete request; and GET /products lists every      *)
(* stored product with its fields.                                         *)
C20_CreateThenList ==
  [][/\ \A w \in Workers :
          (/\ HandlerStep(w)
           /\ req'[w].route = "add_product"
           /\ req'[w].arg.body.name # ""
           /\ req'[w].arg.body.price > 0
           /\ req'[w].arg.body.quantity > 0)
          => LET b == req'[w].arg.body IN
             /\ req'[w].resp.status = 202
             /\ \E i \in ProductIds :
                  /\ products[i] = NoProduct
                  /\ products' =
                       [products EXCEPT ![i] =
                          Product(b.name, b.description, b.price, b.quantity,
                                  req[w].user.user_id)]
     /\ \A i \in ExistingIds(products) :
          products'[i] # products[i] =>
            \E w \in Workers :
              /\ HandlerStep(w)
              /\ req'[w].route \in {"update_product", "delete_product"}
     /\ \A w \in Workers :
          GetProductsDone(w) =>
            /\ req'[w].resp.status = 200 \/ ExistingIds(products) = {}
            /\ \A i \in ExistingIds(products) :
                 to_dict(i, products[i]) \in req'[w].arg.products_list
    ]_vars

OwnerOrAdmin(u, prods, pid) ==
  /\ pid \in ExistingIds(prods)
  /\ prods[pid].user_id = u.user_id \/ u.is_admin

(* a value was supplied and is not higher than 0 *)
NotPositive(v) == v # NoVal /\ v <= 0

C22_UserTableFrame ==
  [][\A s \in Subjects :
       users[s] # NoUser =>
         /\ users'[s] # NoUser =>
              /\ users'[s].user_id = users[s].user_id
              /\ users'[s].email = users[s].email
              /\ users'[s].name = users[s].name
         /\ (users'[s] # NoUser /\ users'[s].is_admin # users[s].is_admin) =>
              \E w \in Workers :
                \/ /\ ResolvedStep(w)
                   /\ req[w].payload.sub = s
                   /\ users'[s].is_admin = bool(req[w].payload.meta)
                \/ /\ CallbackSucceeded(w)
                   /\ req'[w].arg.token.sub = s
                   /\ users'[s].is_admin = bool(req'[w].arg.token.meta)
                \/ /\ HandlerStep(w)
                   /\ req'[w].route = "set_admin"
                   /\ req[w].user.is_admin
                   /\ users[s].email = req'[w].arg.email
                   /\ users'[s].is_admin
         /\ users'[s] = NoUser =>
              \E w \in Workers :
                /\ HandlerStep(w)
                /\ req'[w].route = "delete_user"
                /\ req[w].user.is_admin
                /\ req'[w].arg.user_id = s
     ]_vars

(* an admin has deleted another user, whose record is gone *)
C22_Witness ==
  \E w \in Workers :
    /\ req[w].pc = "done"
    /\ req[w].route = "delete_user"
    /\ req[w].resp.status = 200
    /\ req[w].user.is_admin
    /\ req[w].arg.user_id # req[w].user.user_id
    /\ users[req[w].arg.user_id] = NoUser
    /\ users[req[w].user.user_id] # NoUser

(* the insert of a user for claim set p breaks a constraint of the table *)
InsertRejected(p, tbl) ==
  tbl[p.sub] = NoUser /\ ~InsertAllowed(tbl, NewUser(p))

(* C23: when the store rejects the write of get_or_create_user, be it the  *)
(* insert of a new user or the update of the admin flag, the user table is *)
(* afterwards exactly as before the call and the error is re-raised: the   *)
(* caller gets no user (requires_auth does not run the handler, /callback  *)
(* writes no session record).                                              *)
C23_RejectedWriteRolledBack ==
  [][\A w \in Workers :
       /\ (ResolveStep(w) /\ InsertRejected(req[w].payload, users)) =>
            req'[w].pc = "done" /\ req'[w].exc.type # "AuthError"
       /\ (ResolveStep(w) /\ req'[w].pc = "done") =>
            /\ req'[w].stage = "resolve"
            /\ req'[w].exc \in {EmailTaken, StoreFault}
            /\ req'[w].user = NoUser
            /\ users' = users
       /\ (/\ CallbackDone(w)
           /\ req'[w].arg.outcome = "ok"
           /\ InsertRejected(Claims(req'[w].arg.token), users)) =>
            req'[w].stage = "get_or_create_user"
       /\ (CallbackDone(w) /\ req'[w].stage = "get_or_create_user") =>
            /\ req'[w].exc \in {EmailTaken, StoreFault}
            /\ req'[w].user = NoUser
            /\ users' = users
            /\ session' = session
     ]_vars

(* the update of the admin flag was rejected: the request has ended with   *)
(* the error and the row still has the flag that differs from the claims   *)
C23_Witness ==
  \E w \in Workers :
    /\ req[w].pc = "done"
    /\ req[w].stage = "resolve"
    /\ req[w].exc = StoreFault
    /\ users[req[w].payload.sub] # NoUser
    /\ users[req[w].payload.sub].is_admin # bool(req[w].payload.meta)

(* the commit step of worker w *)
CommitStep(w) ==
  /\ req[w].pc = "commit"
  /\ req'[w].pc \in {"handler", "done"}

(* C24: when two concurrent requests with valid tokens for the same unseen *)
(* subject both run get_or_create_user, the one whose insert finds the     *)
(* subject's row already there catches the duplicate-create, re-fetches    *)
(* the existing user and goes on to its handler: the request does not      *)
(* fail, and the one row of the subject stays as it is.                    *)
C24_DuplicateCreateRefetched ==
  [][\A w \in Workers :
       (/\ CommitStep(w)
        /\ req[w].wrote = "insert"
        /\ users[req[w].payload.sub] # NoUser
        /\ req'[w].exc # StoreFault)
       => /\ req'[w].pc = "handler"
          /\ req'[w].user = users[req[w].payload.sub]
          /\ users' = users
     ]_vars

(* a request that ended with an exception raised inside requires_auth *)
RaisedUnderAuth(r) ==
  /\ r.pc = "done"
  /\ r.exc # NoExc
  /\ r.stage \in {"extract", "verify", "resolve", "handler"}

StoredAdmin(tbl, s) == tbl[s] # NoUser /\ tbl[s].is_admin

(* C26: a promotion made in the store does not survive reconciliation.     *)
(* POST /admin/set by an admin sets the flag of the user it finds; the     *)
(* next successful get_or_create_user for a stored admin, from a protected *)
(* request or from /callback, whose claims lack the admin metadata resets  *)
(* the stored flag to false and returns the user without it, and the       *)
(* admin-only handler that follows in the same request is refused by       *)
(* requires_admin.                                                         *)
C26_PromotionResetByClaims ==
  [][\A w \in Workers :
       /\ (/\ HandlerStep(w)
           /\ req'[w].route = "set_admin"
           /\ req[w].user.is_admin
           /\ UserByEmail(users, req'[w].arg.email) # NoUser)
          => StoredAdmin(users', UserByEmail(users, req'[w].arg.email).user_id)
       /\ (/\ ResolvedStep(w)
           /\ StoredAdmin(users, req[w].payload.sub)
           /\ ~bool(req[w].payload.meta))
          => /\ ~StoredAdmin(users', req[w].payload.sub)
             /\ ~req'[w].user.is_admin
       /\ (/\ CallbackSucceeded(w)
           /\ StoredAdmin(users, req'[w].arg.token.sub)
           /\ ~bool(req'[w].arg.token.meta))
          => /\ ~StoredAdmin(users', req'[w].arg.token.sub)
             /\ ~req'[w].user.is_admin
       /\ (/\ HandlerStep(w)
           /\ req'[w].route \in AdminRoutes
           /\ ~req[w].user.is_admin)
          => /\ req'[w].exc = abort(403, "Forbidden")
             /\ ~req'[w].body
             /\ users' = users
     ]_vars

(* a request whose claims lack the metadata found its user promoted, has   *)
(* committed the reset, and is about to run its handler as a non-admin     *)
C26_Witness ==
  \E w \in Workers :
    /\ req[w].pc = "handler"
    /\ req[w].wrote = "update"
    /\ req[w].payload.meta = "absent"
    /\ ~req[w].user.is_admin
    /\ ~StoredAdmin(users, req[w].payload.sub)

(* metadata claims that are present with a truthy value: non-empty objects *)
TruthyMeta == {"is_admin_false", "is_admin_true"}

(* C27: the admin indicator get_or_create_user derives from the claims is  *)
(* true exactly when the app_metadata claim is present with a truthy       *)
(* value, whatever is_admin says inside it: the user returned and stored   *)
(* for a non-empty metadata object with is_admin false is an admin.        *)
C27_IndicatorIsPresenceOfMetadata ==
  [][\A w \in Workers :
       /\ ResolvedStep(w) =>
            /\ req'[w].user.is_admin <=> req[w].payload.meta \in TruthyMeta
            /\ users'[req[w].payload.sub].is_admin
                  <=> req[w].payload.meta \in TruthyMeta
       /\ CallbackSucceeded(w) =>
            (req'[w].user.is_admin <=> req'[w].arg.token.meta \in TruthyMeta)
     ]_vars

(* a request whose metadata says is_admin false runs its handler as admin *)
C27_Witness ==
  \E w \in Workers :
    /\ req[w].pc = "handler"
    /\ req[w].payload.meta = "is_admin_false"
    /\ req[w].user.is_admin
    /\ StoredAdmin(users, req[w].payload.sub)

(* no stored user is an admin *)
NoAdmin(tbl) == \A s \in Subjects : ~StoredAdmin(tbl, s)

(* C28: promotion through /admin/set requires an admin to exist already.   *)
(* The table starts without users, and a step from a table without an      *)
(* admin to a table with one is the resolution of a claim set that carries *)
(* the admin metadata, by requires_auth or by /callback: while no such     *)
(* claim set is presented, no state holds a user whose admin flag is true. *)
C28_NoAdminWithoutAdminClaims ==
  [][(NoAdmin(users) /\ ~NoAdmin(users'))
     => \E w \in Workers :
          \/ /\ ResolvedStep(w)
             /\ req[w].payload.meta \in TruthyMeta
             /\ \A s \in Subjects \ {req[w].payload.sub} :
                  ~StoredAdmin(users', s)
          \/ /\ CallbackSucceeded(w)
             /\ req'[w].arg.token.meta \in TruthyMeta
             /\ \A s \in Subjects \ {req'[w].arg.token.sub} :
                  ~StoredAdmin(users', s)
     ]_vars

(* POST /admin/set for a stored user was refused while no admin existed *)
C28_Witness ==
  \E w \in Workers :
    /\ req[w].pc = "done"
    /\ req[w].route = "set_admin"
    /\ req[w].exc = abort(403, "Forbidden")
    /\ UserByEmail(users, req[w].arg.email) # NoUser
    /\ NoAdmin(users)

(* the header "Bearer t" *)
BearerHeader(t) == Header(<<W("Bearer"), SP, t>>)

(* C29: logout clears the session and revokes nothing.  GET /logout leaves *)
(* the users, the key set and the clock as they were, so that for every    *)
(* token presented in the Authorization header the steps of requires_auth  *)
(* give after logout what they gave before it; the header token is taken   *)
(* whatever the session holds, and a token that is unexpired, rightly      *)
(* signed and whose key is in the fetched key set is verified.             *)
C29_LogoutRevokesNothing ==
  [][\A w \in Workers :
       /\ LogoutDone(w) =>
            /\ session' = NoSession
            /\ <<users, jwks, now>>' = <<users, jwks, now>>
            /\ \A t \in Tokens :
                 /\ get_token_auth_header(BearerHeader(t), session') = Ok(t)
                 /\ get_token_auth_header(BearerHeader(t), session) = Ok(t)
                 /\ \A b \in BOOLEAN :
                      /\ verify_jwt(t, jwks', b, now')
                           = verify_jwt(t, jwks, b, now)
                      /\ t.shape = "jwt" =>
                           get_or_create_user(Claims(t), users', b)
                             = get_or_create_user(Claims(t), users, b)
       /\ (/\ ExtractStep(w)
           /\ \E t \in Tokens : req'[w].auth = BearerHeader(t))
          => /\ req'[w].pc = "verify"
             /\ req'[w].auth = BearerHeader(req'[w].token)
             /\ req'[w].src = "header"
       /\ (/\ req[w].pc = "verify"
           /\ req'[w].pc \in {"resolve", "done"}
           /\ req'[w].keys # {}
           /\ Acceptable(req[w].token, jwks, now))
          => /\ req'[w].pc = "resolve"
             /\ req'[w].payload = Claims(req[w].token)
     ]_vars

(* logout has cleared the session of a resolved user, and the access token *)
(* that session held is still one that verifies and is taken from a header *)
C29_Witness ==
  \E w \in Workers :
    /\ req[w].pc = "done"
    /\ req[w].route = "logout"
    /\ req[w].arg.had_session
    /\ session = NoSession
    /\ Acceptable(req[w].arg.token, jwks, now)
    /\ users[req[w].arg.token.sub] # NoUser
    /\ get_token_auth_header(BearerHeader(req[w].arg.token), session)
         = Ok(req[w].arg.token)

(* the request of worker w resolves a subject whose record is gone although *)
(* the session still names it: the record was deleted after the login      *)
ResolvesDeleted(w) ==
  /\ ResolveStep(w)
  /\ session # NoSession
  /\ session.user_id = req[w].payload.sub
  /\ users[req[w].payload.sub] = NoUser

(* C30, as stated: after U's record has been deleted, the next request by  *)
(* U with a token that still verifies passes requires_auth and re-creates  *)
(* U's record from the claims of the token (the store being in order).     *)
C30_DeletedUserComesBack ==
  [][\A w \in Workers :
       (ResolvesDeleted(w) /\ req'[w].exc # StoreFault)
       => /\ req'[w].pc = "handler"
          /\ users'[req[w].payload.sub] = NewUser(req[w].payload)
     ]_vars

(* C30, amended: after U's record has been deleted, the next request by U  *)
(* with a token that still verifies re-creates the record from the claims  *)
(* and passes requires_auth when the store accepts the insert, that is     *)
(* when no other user holds the e-mail of the claims and the commit does   *)
(* not fail; otherwise the request is answered 401 invalid_token and the   *)
(* users table stays without a record of U.                                *)
C30_DeletedUserComesBackIfEmailFree ==
  [][\A w \in Workers :
       ResolvesDeleted(w) =>
         LET new == NewUser(req[w].payload) IN
         IF InsertAllowed(users, new) /\ req'[w].exc # StoreFault
           THEN /\ req'[w].pc = "handler"
                /\ req'[w].user = new
                /\ users' = [users EXCEPT ![new.user_id] = new]
           ELSE /\ req'[w].pc = "done"
                /\ req'[w].exc \in {StoreFault, EmailTaken}
                /\ req'[w].resp =
                     Response(401, "invalid_token", req'[w].exc.text)
                /\ users' = users
     ]_vars

(* the user of the session was deleted and has been inserted again by its  *)
(* next request                                                            *)
C30_Witness ==
  \E w \in Workers :
    /\ req[w].pc = "handler"
    /\ req[w].wrote = "insert"
    /\ session # NoSession
    /\ session.user_id = req[w].payload.sub
    /\ users[req[w].payload.sub] = NewUser(req[w].payload)

====
